---- MODULE Spec2Model ----
(***************************************************************************)
(* The Smart Auto-Exit Monitor of market_data_service: main() builds the   *)
(* execution client, the Exchange and the ExitMonitor and runs             *)
(* ExitMonitor.run_forever, which calls _tick, logs any Exception a tick   *)
(* raises, sleeps 60 seconds and repeats.  _tick and                       *)
(* Exchange.close_hedged_position hold one logging call each: neither      *)
(* reads or writes the trades file, and neither calls a venue.             *)
(*                                                                         *)
(* The trades file, the venues and the clock are the program's             *)
(* environment.  They are state of the model so that what the program      *)
(* does to them, and what it leaves alone, can be checked.                 *)
(***************************************************************************)
EXTENDS Integers, Sequences, FiniteSets, TLC

\* ------------------------------------------------------------- bounds
\* The log is kept as its last MaxLog lines.
MaxLog == 1
\* The clock runs from StartTime for MaxSleeps sleeps and then stands still.
MaxSleeps == 3
\* ---------------------------------------------------- program constants
\* asyncio.sleep(60)
SleepSeconds == 60
\* "10-minute window"
HoldingWindow == 600
\* maxRetryAttempts of the configuration ("e.g. 3 attempts")
MaxRetryAttempts == 3

\* The two venues of BinanceBybitExecutionClient.
Venues == {"binance", "bybit"}
\* The symbols of the hedges the trades file holds.
Symbols == {"BTCUSDT", "ETHUSDT"}

PositionStates == {"OPEN", "CLOSING", "CLOSED", "CLOSE_FAILED_PARTIAL"}
LegStatuses == {"PENDING", "CONFIRMED", "FAILED"}

\* Venue-call counters run to one call past the retry maximum.
MaxCalls == MaxRetryAttempts + 1

StartTime == HoldingWindow
EndTime == StartTime + MaxSleeps * SleepSeconds

\* BTCUSDT was opened one tick short of a holding window before the monitor
\* starts, ETHUSDT one tick later.
OpenedAt(symbol) == IF symbol = "BTCUSDT" THEN SleepSeconds ELSE 2 * SleepSeconds
EntryFundingBias(symbol) == IF symbol = "BTCUSDT" THEN 1 ELSE -1
\* The side each venue holds: one long, the other short.
Sides(symbol) ==
    IF symbol = "BTCUSDT"
    THEN [v \in Venues |-> IF v = "binance" THEN "long" ELSE "short"]
    ELSE [v \in Venues |-> IF v = "binance" THEN "short" ELSE "long"]

\* The leg statuses a record of each state holds.
LegsOf(state) ==
    CASE state = "OPEN" -> {[v \in Venues |-> "PENDING"]}
      [] state = "CLOSING" ->
            {l \in [Venues -> {"PENDING", "CONFIRMED"}] :
                \E v \in Venues : l[v] = "PENDING"}
      [] state = "CLOSED" -> {[v \in Venues |-> "CONFIRMED"]}
      [] OTHER ->
            {l \in [Venues -> {"CONFIRMED", "FAILED"}] :
                /\ \E v \in Venues : l[v] = "CONFIRMED"
                /\ \E v \in Venues : l[v] = "FAILED"}

\* The records the trades file can hold for a symbol.
HedgePosition(symbol) ==
    {[state |-> st, legCloseStatus |-> l,
      openedAt |-> OpenedAt(symbol),
      entryFundingBias |-> EntryFundingBias(symbol),
      sides |-> Sides(symbol)] :
        st \in PositionStates, l \in UNION {LegsOf(s) : s \in PositionStates}}

LogLines ==
    {<<"INFO", "Checking trades for exit conditions...", "">>,
     <<"ERROR", "Error in monitor tick", "">>}
    \cup {<<"INFO", "Executing exit for", s>> : s \in Symbols}

VARIABLES
    pc,           \* where run_forever stands: "tick", "sleep", or "dead"
    tickResult,   \* how the latest _tick ended: "none", "ok", "raised"
    now,          \* the clock, in seconds
    log,          \* the last MaxLog lines logged
    trades_file,  \* the persisted ledger: symbol -> HedgePosition record
    venueSize,    \* the position size each venue reports: 0 flat, 1 not
    orders,       \* close orders submitted, per symbol and venue
    queries,      \* position-size queries made, per symbol and venue
    funding,      \* the sign of the venues' funding-rate differential
    prevFunding,  \* that sign at the tick before the latest, 0 when none
    loaded,       \* what the ledger's load() returned: <<>> or <<records>>
    lastSaved     \* per symbol, the record of the last save(): <<>> or <<record>>

vars == <<pc, tickResult, now, log, trades_file, venueSize, orders, queries,
          funding, prevFunding, loaded, lastSaved>>
env == <<trades_file, venueSize, orders, queries>>

TypeOK ==
    /\ pc \in {"tick", "sleep", "dead"}
    /\ tickResult \in {"none", "ok", "raised"}
    /\ now \in StartTime..EndTime
    /\ log \in Seq(LogLines) /\ Len(log) <= MaxLog
    /\ \A s \in Symbols : trades_file[s] \in HedgePosition(s)
    /\ venueSize \in [Symbols -> [Venues -> 0..1]]
    /\ orders \in [Symbols -> [Venues -> 0..MaxCalls]]
    /\ queries \in [Symbols -> [Venues -> 0..MaxCalls]]
    /\ funding \in {-1, 1}
    /\ prevFunding \in {-1, 0, 1}
    /\ loaded = <<>> \/ (Len(loaded) = 1 /\ \A s \in Symbols : loaded[1][s] \in HedgePosition(s))
    /\ \A s \in Symbols :
        lastSaved[s] = <<>> \/ (Len(lastSaved[s]) = 1 /\ lastSaved[s][1] \in HedgePosition(s))

\* logging.info / logging.error: the line is appended to the log.
Logged(l, line) ==
    LET l2 == Append(l, line)
    IN  IF Len(l2) > MaxLog THEN SubSeq(l2, Len(l2) - MaxLog + 1, Len(l2)) ELSE l2

LastLine(l) == IF Len(l) = 0 THEN <<>> ELSE l[Len(l)]

CheckingLine == <<"INFO", "Checking trades for exit conditions...", "">>
ErrorLine == <<"ERROR", "Error in monitor tick", "">>
ExitLine(symbol) == <<"INFO", "Executing exit for", symbol>>

Init ==
    /\ pc = "tick"
    /\ tickResult = "none"
    /\ now = StartTime
    /\ log = <<>>
    /\ trades_file \in [Symbols -> UNION {HedgePosition(s) : s \in Symbols}]
    /\ \A s \in Symbols :
        /\ trades_file[s] \in HedgePosition(s)
        /\ trades_file[s].legCloseStatus \in LegsOf(trades_file[s].state)
    /\ venueSize \in [Symbols -> [Venues -> 0..1]]
    /\ \A s \in Symbols, v \in Venues :
        trades_file[s].legCloseStatus[v] = "CONFIRMED" => venueSize[s][v] = 0
    /\ orders = [s \in Symbols |-> [v \in Venues |-> 0]]
    /\ queries = [s \in Symbols |-> [v \in Venues |-> 0]]
    /\ funding \in {-1, 1}
    /\ prevFunding = 0
    /\ loaded = <<>>
    /\ lastSaved = [s \in Symbols |-> <<>>]

\* Mutant of TickExitDecision: one flipped reading of the funding sign is
\* enough for a funding-flip exit.
decision_on_single_flip(position, t) ==
    IF funding # position.entryFundingBias THEN "FUNDING_FLIP_EXIT" ELSE "NONE"

\* Mutant of TickExitDecision: the decision reads the clock, not the time it
\* is given.
decision_reads_clock(position, t) ==
    IF now - position.openedAt >= HoldingWindow THEN "TIME_EXIT" ELSE "NONE"

\* The exit decision _tick takes for a position: its body is one logging
\* call, so no exit is decided, at any time and for any record.
TickExitDecision(position, t) == "NONE"

\* Mutant of tick_returns: a tick puts a CLOSE_FAILED_PARTIAL position back
\* to OPEN, as a retry that re-opens the record would.
tick_reopens_partial ==
    /\ pc = "tick"
    /\ log' = Logged(log, CheckingLine)
    /\ tickResult' = "ok"
    /\ pc' = "sleep"
    /\ trades_file' =
        [s \in Symbols |->
            IF trades_file[s].state = "CLOSE_FAILED_PARTIAL"
            THEN [trades_file[s] EXCEPT !.state = "OPEN",
                    !.legCloseStatus = [v \in Venues |-> "PENDING"]]
            ELSE trades_file[s]]
    /\ UNCHANGED <<loaded, lastSaved, funding, prevFunding, now, venueSize, orders, queries>>

\* _tick returns: it has logged that it checks the trades.
tick_returns ==
    /\ pc = "tick"
    /\ log' = Logged(log, CheckingLine)
    /\ tickResult' = "ok"
    /\ pc' = "sleep"
    /\ UNCHANGED <<loaded, lastSaved, funding, prevFunding, now, env>>

\* Mutant of tick_raises: the Exception is not caught and ends run_forever.
tick_raises_uncaught ==
    /\ pc = "tick"
    /\ \E emitted \in BOOLEAN :
        log' = IF emitted THEN Logged(log, CheckingLine) ELSE log
    /\ tickResult' = "raised"
    /\ pc' = "dead"
    /\ UNCHANGED <<loaded, lastSaved, funding, prevFunding, now, env>>

\* Mutant of tick_raises: the failed tick is started again at once, the sleep
\* left out.
tick_raises_retried_at_once ==
    /\ pc = "tick"
    /\ \E emitted \in BOOLEAN :
        log' = Logged(IF emitted THEN Logged(log, CheckingLine) ELSE log, ErrorLine)
    /\ tickResult' = "raised"
    /\ pc' = "tick"
    /\ UNCHANGED <<loaded, lastSaved, funding, prevFunding, now, env>>

\* _tick raises an Exception, before or after its line is logged; run_forever
\* catches it, logs the error and goes on to the sleep.
tick_raises ==
    /\ pc = "tick"
    /\ \E emitted \in BOOLEAN :
        log' = Logged(IF emitted THEN Logged(log, CheckingLine) ELSE log, ErrorLine)
    /\ tickResult' = "raised"
    /\ pc' = "sleep"
    /\ UNCHANGED <<loaded, lastSaved, funding, prevFunding, now, env>>

\* Mutant of run_forever_sleep: the time the cycle took is taken off the
\* sleep (fixed-rate), so the next tick starts before a full interval passed.
sleep_cut_short ==
    /\ pc = "sleep"
    /\ \E slept \in {0, SleepSeconds} :
        now' = IF now + slept > EndTime THEN now ELSE now + slept
    /\ pc' = "tick"
    /\ funding' \in {-1, 1}
    /\ prevFunding' = funding
    /\ UNCHANGED <<loaded, lastSaved, tickResult, log, env>>

\* asyncio.sleep(60) returns and the loop goes round.  The funding rates move
\* while the monitor sleeps; the sign the last tick ran under is remembered.
run_forever_sleep ==
    /\ pc = "sleep"
    /\ now' = IF now + SleepSeconds > EndTime THEN now ELSE now + SleepSeconds
    /\ pc' = "tick"
    /\ funding' \in {-1, 1}
    /\ prevFunding' = funding
    /\ UNCHANGED <<loaded, lastSaved, tickResult, log, env>>

\* Mutant of close_hedged_position: a reduce-only order goes to both venues
\* whatever the legs' persisted status.
close_resubmits_all(symbol) ==
    /\ pc = "sleep"
    /\ \A v \in Venues : orders[symbol][v] < MaxCalls
    /\ log' = Logged(log, ExitLine(symbol))
    /\ orders' = [orders EXCEPT ![symbol] = [v \in Venues |-> orders[symbol][v] + 1]]
    /\ UNCHANGED <<loaded, lastSaved, funding, prevFunding, pc, tickResult, now, trades_file, venueSize, queries>>

\* Mutant of close_hedged_position: both venues are asked for the position
\* size whatever the position's state.
close_requeries(symbol) ==
    /\ pc = "sleep"
    /\ \A v \in Venues : queries[symbol][v] < MaxCalls
    /\ log' = Logged(log, ExitLine(symbol))
    /\ queries' = [queries EXCEPT ![symbol] = [v \in Venues |-> queries[symbol][v] + 1]]
    /\ UNCHANGED <<loaded, lastSaved, funding, prevFunding, pc, tickResult, now, trades_file, venueSize, orders>>

\* Mutant of close_hedged_position: an order goes to each unconfirmed leg and
\* the leg is marked CONFIRMED on the acknowledgement, the venue not asked.
close_trusts_ack(symbol) ==
    /\ pc = "sleep"
    /\ \A v \in Venues : orders[symbol][v] < MaxCalls
    /\ log' = Logged(log, ExitLine(symbol))
    /\ orders' = [orders EXCEPT ![symbol] =
            [v \in Venues |->
                IF trades_file[symbol].legCloseStatus[v] = "CONFIRMED"
                THEN orders[symbol][v] ELSE orders[symbol][v] + 1]]
    /\ trades_file' = [trades_file EXCEPT ![symbol] =
            [@ EXCEPT !.state = "CLOSED",
                      !.legCloseStatus = [v \in Venues |-> "CONFIRMED"]]]
    /\ UNCHANGED <<loaded, lastSaved, funding, prevFunding, pc, tickResult, now, venueSize, queries>>

\* Mutant of close_hedged_position: a leg's order is submitted once more
\* than maxRetryAttempts allows.
close_retries_past_max(symbol) ==
    /\ pc = "sleep"
    /\ \A v \in Venues : orders[symbol][v] = 0
    /\ log' = Logged(log, ExitLine(symbol))
    /\ orders' = [orders EXCEPT ![symbol] =
            [v \in Venues |->
                IF trades_file[symbol].legCloseStatus[v] = "CONFIRMED"
                THEN 0 ELSE MaxRetryAttempts + 1]]
    /\ UNCHANGED <<loaded, lastSaved, funding, prevFunding, pc, tickResult, now, trades_file, venueSize, queries>>

\* Mutant of close_hedged_position: the unwind starts over, the record set
\* to CLOSING with both legs PENDING whatever it held.
close_resets_record(symbol) ==
    /\ pc = "sleep"
    /\ log' = Logged(log, ExitLine(symbol))
    /\ trades_file' = [trades_file EXCEPT ![symbol] =
            [@ EXCEPT !.state = "CLOSING",
                      !.legCloseStatus = [v \in Venues |-> "PENDING"]]]
    /\ UNCHANGED <<loaded, lastSaved, funding, prevFunding, pc, tickResult, now, venueSize, orders, queries>>

\* Exchange.close_hedged_position(symbol).  Neither main nor _tick calls it:
\* the action stands for any caller awaiting it on the event loop, where
\* tasks switch only while run_forever is suspended, in its sleep.
close_hedged_position(symbol) ==
    /\ pc = "sleep"
    /\ log' = Logged(log, ExitLine(symbol))
    /\ UNCHANGED <<loaded, lastSaved, funding, prevFunding, pc, tickResult, now, env>>

\* The process is terminated from outside (the loop has no exit of its own).
Terminate ==
    /\ pc # "dead"
    /\ pc' = "dead"
    /\ UNCHANGED <<loaded, lastSaved, funding, prevFunding, tickResult, now, log, env>>

\* The process is started again: main() builds the monitor and runs it.  No
\* tick of the new process has run yet.
main ==
    /\ pc = "dead"
    /\ pc' = "tick"
    /\ tickResult' = "none"
    /\ prevFunding' = 0
    /\ UNCHANGED <<loaded, lastSaved, now, log, env, funding>>

Run ==
    \/ tick_returns
    \/ tick_raises
    \/ run_forever_sleep
    \/ \E s \in Symbols : close_hedged_position(s)

Next ==
    \/ Run
    \/ Terminate
    \/ main

Spec == Init /\ [][Next]_vars

\* The event loop runs the monitor's coroutine whenever it can run: a tick
\* ends and a sleep returns, as long as the process is not terminated.
FairSpec ==
    /\ Init
    /\ [][Run]_vars
    /\ WF_vars(tick_returns \/ tick_raises)
    /\ WF_vars(run_forever_sleep)

\* ------------------------------------------------------------ the ledger
\* The ledger behind the trades file: save(position) replaces the whole
\* record stored under the position's identifier, load() returns what is
\* stored, and a crash loses what the process held in memory, not the file.
\* The monitor calls none of them; they are checked on their own.
Records(symbol) ==
    {r \in HedgePosition(symbol) : r.legCloseStatus \in LegsOf(r.state)}

\* Mutant of ledger_save: a partial patch, only the state written to the
\* stored record.
ledger_save_patches_state(symbol, position) ==
    /\ trades_file' = [trades_file EXCEPT ![symbol].state = position.state]
    /\ lastSaved' = [lastSaved EXCEPT ![symbol] = <<position>>]
    /\ UNCHANGED <<pc, tickResult, now, log, venueSize, orders, queries,
                   funding, prevFunding, loaded>>

ledger_save(symbol, position) ==
    /\ trades_file' = [trades_file EXCEPT ![symbol] = position]
    /\ lastSaved' = [lastSaved EXCEPT ![symbol] = <<position>>]
    /\ UNCHANGED <<pc, tickResult, now, log, venueSize, orders, queries,
                   funding, prevFunding, loaded>>

ledger_load ==
    /\ loaded' = <<trades_file>>
    /\ UNCHANGED <<pc, tickResult, now, log, env, funding, prevFunding, lastSaved>>

ledger_crash ==
    /\ loaded' = <<>>
    /\ UNCHANGED <<pc, tickResult, now, log, env, funding, prevFunding, lastSaved>>

LedgerInit ==
    /\ Init
    /\ funding = 1
    /\ \A s \in Symbols, v \in Venues : venueSize[s][v] = 0

LedgerNext ==
    \/ \E s \in Symbols : \E r \in Records(s) : ledger_save(s, r)
    \/ ledger_load
    \/ ledger_crash

LedgerSpec == LedgerInit /\ [][LedgerNext]_vars

\* ------------------------------------------------------------ helpers
State(s) == trades_file[s].state
Leg(s, v) == trades_file[s].legCloseStatus[v]
TimeDue(s) == now - trades_file[s].openedAt >= HoldingWindow
\* close_hedged_position(s) has just run: its line is the last one logged.
JustClosed(s) == LastLine(log) = ExitLine(s)
\* The step is a run of close_hedged_position(s).
CloseStep(s) == pc = "sleep" /\ pc' = "sleep" /\ log' = Logged(log, ExitLine(s))
\* A tick has just ended without an error.
TickDone == pc = "sleep" /\ tickResult = "ok"

\* ------------------------------------------------------------ C1
\* C1: the monitor loop never ends because of an error.  A tick that raises
\* is logged at error severity and followed by the sleep; no step of the
\* program ends the loop; every tick is followed by a sleep and every sleep
\* by a further tick.
C1_LoopSurvivesErrors ==
    /\ [][pc = "tick" /\ tickResult' = "raised"
            => pc' = "sleep" /\ LastLine(log') = ErrorLine]_vars
    /\ [](pc # "dead")
    /\ ((pc = "tick") ~> (pc = "sleep"))
    /\ ((pc = "sleep") ~> (pc = "tick"))

\* A tick has begun after a tick that raised.
C1_Witness == pc = "tick" /\ tickResult = "raised" /\ ErrorLine \in {log[i] : i \in 1..Len(log)}

\* ------------------------------------------------------------ C2
\* C2: when ticks keep completing without error, every OPEN position whose
\* holding window has elapsed eventually leaves OPEN for CLOSED or
\* CLOSE_FAILED_PARTIAL, a close order having been submitted on both venues.
C2_DueExitIsUnwound ==
    ([]<>TickDone) =>
        \A s \in Symbols :
            (State(s) = "OPEN" /\ TimeDue(s))
                ~> (/\ State(s) \in {"CLOSED", "CLOSE_FAILED_PARTIAL"}
                    /\ \A v \in Venues : orders[s][v] > 0)

\* ------------------------------------------------------------ C3
\* C3: once the unwind of a position has run, its persisted state is no
\* longer OPEN (it was set to CLOSING and saved before any order), and no
\* order is ever on a venue for a position persisted as OPEN.
C3_ClosingPersistedFirst ==
    \A s \in Symbols :
        /\ JustClosed(s) => State(s) # "OPEN"
        /\ (\E v \in Venues : orders[s][v] > 0) => State(s) # "OPEN"

\* ------------------------------------------------------------ C4
\* C4: no step submits a close order for a leg whose persisted
\* legCloseStatus is CONFIRMED.
C4_NoOrderForConfirmedLeg ==
    [][\A s \in Symbols, v \in Venues :
        Leg(s, v) = "CONFIRMED" => orders'[s][v] = orders[s][v]]_vars

\* close_hedged_position has run for a position with a CONFIRMED leg that is
\* not yet closed.
C4_Witness ==
    \E s \in Symbols, v \in Venues :
        /\ JustClosed(s)
        /\ Leg(s, v) = "CONFIRMED"
        /\ State(s) \in {"CLOSING", "CLOSE_FAILED_PARTIAL"}
        /\ orders[s][v] = 0

\* ------------------------------------------------------------ C5
\* C5: close_hedged_position on a CLOSED position submits no order, makes no
\* position query and leaves the position's record as it was.
C5_ClosedUnwindIsNoOp ==
    [][\A s \in Symbols :
        CloseStep(s) /\ State(s) = "CLOSED"
            => /\ orders' = orders
               /\ queries' = queries
               /\ venueSize' = venueSize
               /\ trades_file' = trades_file]_vars

\* close_hedged_position has run for a CLOSED position.
C5_Witness ==
    \E s \in Symbols :
        /\ JustClosed(s)
        /\ State(s) = "CLOSED"
        /\ \A v \in Venues : orders[s][v] = 0 /\ queries[s][v] = 0

\* ------------------------------------------------------------ C6
\* C6: a step marks a leg CONFIRMED only if the venue reports a zero
\* position for it, and moves a position to CLOSED only if both venues do.
C6_ConfirmedOnlyWhenFlat ==
    [][\A s \in Symbols :
        /\ \A v \in Venues :
            Leg(s, v) # "CONFIRMED" /\ trades_file'[s].legCloseStatus[v] = "CONFIRMED"
                => venueSize'[s][v] = 0
        /\ State(s) # "CLOSED" /\ trades_file'[s].state = "CLOSED"
                => \A v \in Venues : venueSize'[s][v] = 0]_vars

\* close_hedged_position has run for a position with a venue still holding
\* a position: the leg is not CONFIRMED and the position not CLOSED.
C6_Witness ==
    \E s \in Symbols, v \in Venues :
        /\ JustClosed(s)
        /\ venueSize[s][v] = 1
        /\ Leg(s, v) # "CONFIRMED"
        /\ State(s) # "CLOSED"

\* ------------------------------------------------------------ C7
\* C7: when the unwind of a position has run and one venue reports the leg
\* flat while the other still holds its leg, the record is
\* CLOSE_FAILED_PARTIAL, CONFIRMED for the flat leg and FAILED for the other.
C7_PartialFailureRecorded ==
    \A s \in Symbols, a \in Venues, b \in Venues :
        JustClosed(s) /\ a # b /\ venueSize[s][a] = 0 /\ venueSize[s][b] = 1
            => /\ State(s) = "CLOSE_FAILED_PARTIAL"
               /\ Leg(s, a) = "CONFIRMED"
               /\ Leg(s, b) = "FAILED"

\* ------------------------------------------------------------ C8
\* C8: one step submits at most maxRetryAttempts orders for a leg, and no
\* submission is repeated: at most one is made.
C8_BoundedSubmissions ==
    [][\A s \in Symbols, v \in Venues :
        /\ orders'[s][v] - orders[s][v] <= MaxRetryAttempts
        /\ orders'[s][v] - orders[s][v] <= 1]_vars

\* close_hedged_position has run for a position whose leg is still on the
\* venue and not confirmed.
C8_Witness ==
    \E s \in Symbols, v \in Venues :
        /\ JustClosed(s)
        /\ State(s) \in {"OPEN", "CLOSING"}
        /\ Leg(s, v) = "PENDING"
        /\ venueSize[s][v] = 1
        /\ orders[s][v] <= MaxRetryAttempts

\* ------------------------------------------------------------ C9
AllowedTransitions ==
    {<<"OPEN", "CLOSING">>, <<"CLOSING", "CLOSED">>,
     <<"CLOSING", "CLOSE_FAILED_PARTIAL">>,
     <<"CLOSE_FAILED_PARTIAL", "CLOSING">>, <<"CLOSE_FAILED_PARTIAL", "CLOSED">>}

C10_TimeExitIffWindowElapsed ==
    \A s \in Symbols :
        TickDone /\ State(s) = "OPEN"
            => (TickExitDecision(trades_file[s], now) = "TIME_EXIT" <=> TimeDue(s))

\* ------------------------------------------------------------ C11
\* The funding sign differs from the position's entry bias now, and did at
\* the tick before the latest.
Flipped(s) == funding # trades_file[s].entryFundingBias
PrevFlipped(s) == prevFunding # 0 /\ prevFunding # trades_file[s].entryFundingBias
\* A tick has just ended, with or without an error.
TickEnded == pc = "sleep" /\ tickResult # "none"

TickRan ==
    /\ tickResult' \in {"ok", "raised"}
    /\ LastLine(log') \in {CheckingLine, ErrorLine}
    /\ tickResult' # tickResult \/ log' # log

\* C13: cycles do not overlap.  A tick runs only from the loop's tick
\* position and ends in the sleep, the clock where it was; the next tick
\* starts only out of that sleep, a full interval later (or in a process
\* started anew); and one step makes venue calls for one position at most.
C13_CyclesNeverOverlap ==
    [][/\ TickRan => pc = "tick" /\ pc' = "sleep" /\ now' = now
       /\ pc # "tick" /\ pc' = "tick" =>
            \/ pc = "dead"
            \/ pc = "sleep" /\ (now' = now + SleepSeconds \/ now = EndTime)
       /\ Cardinality({s \in Symbols :
            orders'[s] # orders[s] \/ queries'[s] # queries[s]}) <= 1]_vars

\* A second tick has ended, a full interval after the first.
C13_Witness ==
    /\ TickEnded
    /\ now = StartTime + SleepSeconds
    /\ prevFunding # 0

\* ------------------------------------------------------------ C20
\* C20: in run_forever every tick, whether it returned or raised, is
\* followed by the sleep, and only the sleep, a full 60 seconds long, leads
\* to the next tick: a tick that failed is not run again at once.
C20_OneSleepBetweenTicks ==
    [][/\ pc = "tick" /\ pc' # "dead" => pc' = "sleep" /\ tickResult' \in {"ok", "raised"}
       /\ pc = "sleep" /\ pc' # "sleep" /\ pc' # "dead" =>
            /\ pc' = "tick"
            /\ tickResult' = tickResult
            /\ now' = now + SleepSeconds \/ now = EndTime]_vars

\* A tick is about to start a full interval after a tick that raised.
C20_Witness ==
    /\ pc = "tick"
    /\ tickResult = "raised"
    /\ now = StartTime + SleepSeconds

\* ------------------------------------------------------------ C15
\* C15: a tick that runs with a position in CLOSE_FAILED_PARTIAL logs a line
\* at error severity for that position.
C15_PartialReportedEachCycle ==
    [][\A s \in Symbols :
        pc = "tick" /\ pc' = "sleep" /\ State(s) = "CLOSE_FAILED_PARTIAL"
            => \E i \in 1..Len(log') : log'[i][1] = "ERROR" /\ log'[i][3] = s]_vars

\* ------------------------------------------------------------ C16
\* The position's holding window had elapsed a full interval ago, so at the
\* latest tick that ended too.
DueAtLastTick(s) == now - SleepSeconds - trades_file[s].openedAt >= HoldingWindow

C17_UnwindEndsClosedOrPartial ==
    \A s \in Symbols :
        JustClosed(s) => State(s) \in {"CLOSED", "CLOSE_FAILED_PARTIAL"}

C19_RecordsMonotone ==
    /\ [][\A s \in Symbols :
            /\ State(s) = "CLOSED" => trades_file'[s] = trades_file[s]
            /\ \A v \in Venues :
                Leg(s, v) = "CONFIRMED" => trades_file'[s].legCloseStatus[v] = "CONFIRMED"
            /\ trades_file'[s].entryFundingBias = trades_file[s].entryFundingBias
            /\ trades_file'[s].sides = trades_file[s].sides
            /\ trades_file'[s].openedAt = trades_file[s].openedAt]_vars
    /\ [](\A s \in Symbols :
            State(s) \in {"OPEN", "CLOSING"} =>
                \A a \in Venues, b \in Venues :
                    a # b => trades_file[s].sides[a] # trades_file[s].sides[b])

\* A process started anew stands before its first tick, the unwind having
\* run before for a CLOSING position with one leg CONFIRMED.
C19_Witness ==
    \E s \in Symbols, v \in Venues :
        /\ pc = "tick" /\ tickResult = "none"
        /\ JustClosed(s)
        /\ State(s) = "CLOSING"
        /\ Leg(s, v) = "CONFIRMED"

====
